---- MODULE Spec2Model ----
(***************************************************************************)
(* A model of the macro execution engine of vcode:                         *)
(*   MacroExecutor.execute (orchestrator, in-process evaluator, python     *)
(*   bridge, alone and with several calls in flight),                      *)
(*   MacroExecutor.getRuntime, MacroExecutor.validateMacroCode and         *)
(*   MacroExecutor.extractParameters.                                      *)
(*                                                                         *)
(* Texts are sequences of fragments: a fragment is one character when the  *)
(* code looks inside the text (paths, sources, standard error) and a whole *)
(* literal when the code only copies it (messages, the input text).        *)
(* JavaScript values are records [t |-> type, v |-> text].                 *)
(***************************************************************************)
EXTENDS Integers, Sequences, FiniteSets, TLC

\* ------------------------------------------------------------------ bounds

\* Longest extra-parameter list handed to execute.
MaxParams == 2
\* Most chunks a subprocess writes to one of its output streams.
MaxChunks == 2
\* Most parameters in a generated transform declaration.
MaxDecl == 3
\* Bridge executions in flight at once.
NumCalls == 2

\* --------------------------------------------------------------- JS values

Str(s) == [t |-> "string", v |-> s]
Err(m) == [t |-> "Error", v |-> m]
Undefined == [t |-> "undefined", v |-> <<>>]
Obj == [t |-> "object", v |-> <<>>]

\* typeof x === 'string'
IsString(x) == x.t = "string"

\* String(x) for a value that is not an Error instance.
StringOf(x) ==
    CASE x.t = "string" -> x.v
      [] x.t = "number" -> x.v
      [] x.t = "undefined" -> <<"undefined">>
      [] x.t = "null" -> <<"null">>
      [] x.t = "object" -> <<"[object Object]">>
      [] OTHER -> <<"Error: ">> \o x.v

\* error instanceof Error ? error.message : String(error)
ErrorText(e) == IF e.t = "Error" THEN e.v ELSE StringOf(e)

\* ------------------------------------------------------------- text helpers

Whitespace == {" ", "\n", "\t"}

RECURSIVE TrimStart(_)
TrimStart(s) ==
    IF s # <<>> /\ Head(s) \in Whitespace THEN TrimStart(Tail(s)) ELSE s

RECURSIVE TrimEnd(_)
TrimEnd(s) ==
    IF s # <<>> /\ s[Len(s)] \in Whitespace
    THEN TrimEnd(SubSeq(s, 1, Len(s) - 1))
    ELSE s

\* String.prototype.trim
Trim(s) == TrimEnd(TrimStart(s))

\* String.prototype.toLowerCase on the characters the model uses.
ToLowerCase(s) ==
    LET LowerChar(c) ==
            CASE c = "P" -> "p"
              [] c = "Y" -> "y"
              [] c = "A" -> "a"
              [] OTHER -> c
    IN  [i \in 1..Len(s) |-> LowerChar(s[i])]

\* String.prototype.endsWith
EndsWith(s, suffix) ==
    /\ Len(suffix) <= Len(s)
    /\ SubSeq(s, Len(s) - Len(suffix) + 1, Len(s)) = suffix

\* String.prototype.startsWith
StartsWith(s, prefix) ==
    /\ Len(prefix) <= Len(s)
    /\ SubSeq(s, 1, Len(prefix)) = prefix

\* ------------------------------------------------------ macro descriptors

\* An absent optional field (undefined).
None == "none"

\* Backing paths: absent, empty, and files of several extensions.
PathPy == <<"/", "a", ".", "p", "y">>
PathPyUpper == <<"/", "A", ".", "P", "Y">>
PathEmpty == <<>>

\* Inline sources: empty, blank, a source that parses and defines transform,
\* one that parses and defines no transform, and one that does not parse.
CodeEmpty == <<>>
CodeBlank == <<" ", "\n">>
CodeText == <<"c", "o", "d", "e">>
CodeBad == <<"c", "o", "d", "e", "(">>
Codes == {CodeEmpty, CodeBlank, CodeText, <<"x", "=", "1">>, CodeBad}

\* A descriptor without a path carries no path text.
WellFormedMacro(m) == m.hasPath \/ m.filePath = PathEmpty

\* if (macro.filePath): the field is present and not the empty string.
HasFilePath(m) == m.hasPath /\ m.filePath # <<>>

\* MacroExecutor.getRuntime with the extension test dropped.
GetRuntimeNoExtension(m) ==
    IF m.runtime # None THEN m.runtime ELSE "javascript"

\* MacroExecutor.getRuntime
GetRuntime(m) ==
    IF m.runtime # None
    THEN m.runtime
    ELSE IF HasFilePath(m) /\ EndsWith(ToLowerCase(m.filePath), <<".", "p", "y">>)
         THEN "python"
         ELSE "javascript"

\* ------------------------------------------------- contexts and settings

\* A value no JSON text can carry (a cycle, a BigInt).
Cyclic == "cyclic"

EmptyMap == [k \in {} |-> "0"]
MapA1 == [k \in {"a"} |-> "1"]
MapA2B3 == [k \in {"a", "b"} |-> IF k = "a" THEN "2" ELSE "3"]

\* context.globals: absent, or a map of the caller's.
NoGlobals == [present |-> FALSE, map |-> EmptyMap]
SomeGlobals(m) == [present |-> TRUE, map |-> m]

RECURSIVE SeqsUpTo(_, _)
SeqsUpTo(S, n) ==
    IF n = 0
    THEN {<<>>}
    ELSE LET shorter == SeqsUpTo(S, n - 1)
         IN shorter \cup {Append(s, x) : s \in shorter, x \in S}

\* { ...a, ...b }: every key of either, b's value where both define one.
SpreadCallerFirst(a, b) ==
    [k \in (DOMAIN a) \cup (DOMAIN b) |-> IF k \in DOMAIN a THEN a[k] ELSE b[k]]

Spread(a, b) ==
    [k \in (DOMAIN a) \cup (DOMAIN b) |-> IF k \in DOMAIN b THEN b[k] ELSE a[k]]

\* MacroExecutor.getGlobalVariables, for settings the store could read.
GetGlobalVariables(cfg) ==
    IF cfg.kind = "object" THEN cfg.map ELSE EmptyMap

\* The executionContext execute builds: { ...context, globals: {...} }.
EffectiveContext(ctx, cfg) ==
    [ctx EXCEPT !.globals =
        SomeGlobals(Spread(GetGlobalVariables(cfg),
                           IF ctx.globals.present THEN ctx.globals.map ELSE EmptyMap))]

\* The caller's object after execute built the effective context from it:
\* the spread copies, nothing is assigned to context or context.globals.
ContextAfterCall(ctx, cfg) == ctx

\* ------------------------------------------------------------- results

\* MacroExecutionResult; an absent field is undefined.
Success(out) == [success |-> TRUE, output |-> out, error |-> Undefined]
Failure(msg) == [success |-> FALSE, output |-> Undefined, error |-> Str(msg)]
NoResult == [success |-> FALSE, output |-> Undefined, error |-> Undefined]

\* execute's catch clause with the error thrown on.
ExecuteCatchRethrow(e) == [outcome |-> "raised", result |-> NoResult]

\* execute's catch clause: a failure result carrying the error's text.
ExecuteCatch(e) == [outcome |-> "returned", result |-> Failure(ErrorText(e))]

\* The output validation with the typeof test dropped.
ValidateOutputUnchecked(output) == Success(output)

\* The output validation coercing the value to a string instead.
ValidateOutputCoerced(output) == Success(Str(StringOf(output)))

\* The output validation of execute (typeof output !== 'string').
ValidateOutput(output) ==
    IF ~IsString(output)
    THEN Failure(<<"Macro must return a string value">>)
    ELSE Success(output)

\* ------------------------------------------------------------------ state

VARIABLES
    pc,                 \* where the execute call stands
    macro,              \* the descriptor passed to execute
    given,              \* the context value the caller passed
    context,            \* the caller's context object, as execute leaves it
    params,             \* the extra parameters passed to execute
    config,             \* the configured globals at the time of the call
    executionContext,   \* the context execute built
    runtime,            \* the runtime getRuntime resolved
    compiled,           \* the source was given to the in-process evaluator
    handed,             \* what the macro was given: transform's arguments or the stdin payload
    transformOutcome,   \* what the in-process transform did
    outcome,            \* pending, returned or raised
    result,             \* the MacroExecutionResult returned
    tempDir,            \* the scratch directory of the bridge
    cleanup,            \* ensurePythonMacroFile returned a cleanup
    child,              \* the interpreter subprocess
    stdout,             \* standard output accumulated by the bridge
    stderr,             \* standard error accumulated by the bridge
    settled,            \* the bridge's settled flag
    promise,            \* the promise executePythonMacro awaits
    stdin,              \* the standard input stream of the subprocess
    unhandled,          \* errors emitted with no listener, raised in the host
    required,           \* the module lookup the in-process transform asked for
    source,             \* the source given to extractParameters
    declared,           \* the parameters its transform declaration declares
    extracted,          \* what extractParameters returned
    xpc,                \* where the extractParameters call stands
    entered,            \* the values the user entered at the parameter prompts
    bound,              \* the value each named parameter of transform was bound to
    vpc,                \* where the validateMacroCode call stands
    vcode,              \* the source given to validateMacroCode
    validation,         \* what the validateMacroCode call did and returned
    fsDirs,             \* concurrent calls: the scratch directories on disk
    fsFile,             \* concurrent calls: the macro.py each directory holds
    cpc,                \* concurrent calls: where each execute call stands
    cdir,               \* concurrent calls: each call's tempDir
    cchild,             \* concurrent calls: each call's subprocess
    cstdout,            \* concurrent calls: each call's stdout
    cstderr,            \* concurrent calls: each call's stderr
    csettled,           \* concurrent calls: each call's settled flag
    cresult             \* concurrent calls: what each call's promise resolved to

execVars ==
    <<pc, macro, given, context, params, config, executionContext, runtime, compiled,
      handed, transformOutcome, outcome, result, tempDir, cleanup, child,
      stdout, stderr, settled, promise, stdin, unhandled, required>>

extractVars == <<source, declared, extracted, xpc, entered, bound>>

validateVars == <<vpc, vcode, validation>>

callVars ==
    <<fsDirs, fsFile, cpc, cdir, cchild, cstdout, cstderr, csettled, cresult>>

\* The macro registry (MacroManager), the commands' last message, and the
\* file loader (MacroFileLoader) with the settings and the disk it reads.
VARIABLES
    macros,             \* MacroManager.macros
    fileMacros,         \* MacroManager.fileMacros: id -> the file it came from
    settings,           \* the stored value of vcode.macros
    last,               \* the last call of a MacroManager method
    message,            \* what the last command showed
    directories,        \* the stored value of vcode.macro.directories
    disk,               \* the files in the macro directories
    watchers,           \* MacroFileLoader.watchers
    loads,              \* the runs of loadConfiguredMacros in progress
    lpc                 \* the loader: new, initializing, listening

hostVars ==
    <<macros, fileMacros, settings, last, message, directories, disk, watchers,
      loads, lpc>>

vars == <<execVars, extractVars, validateVars, callVars, hostVars>>

\* ------------------------------------------------- in-process evaluator

\* new Function(...) accepts the wrapped source.
Compiles(code) == code # CodeBad

\* The source declares a transform function.
DefinesTransform(code) == code = CodeText

\* MacroExecutor.createSandboxedFunction: the callable, or the error thrown.
CreateSandboxedFunction(code) ==
    IF Compiles(code)
    THEN [ok |-> TRUE, error |-> Undefined]
    ELSE [ok |-> FALSE,
          error |-> Err(<<"Failed to create macro function: ", "Unexpected token">>)]

\* createRequire(filename) throws unless filename is an absolute path.
CreateRequireThrows(m) == HasFilePath(m) /\ Head(m.filePath) # "/"

\* The ways a call of the compiled callable ends: with a value returned or
\* resolved, or with a value thrown or rejected.
TransformOutcomes ==
    [kind : {"return", "resolve"},
     value : {Str(<<"out">>), Str(<<>>), [t |-> "number", v |-> <<"4", "2">>],
              Obj, Undefined,
              [t |-> "null", v |-> <<>>]}]
        \cup [kind : {"throw", "reject"},
              value : {Err(<<"boom">>), Str(<<"oops">>), Undefined}]

\* ---------------------------------------------------- validateMacroCode

\* validateMacroCode calling the callable it was given, to look for transform.
ValidateMacroCodeCalling(code) ==
    LET fn == CreateSandboxedFunction(code)
    IN  IF fn.ok
        THEN [valid |-> DefinesTransform(code), error |-> Undefined,
              ran |-> TRUE, raised |-> FALSE]
        ELSE [valid |-> FALSE, error |-> Str(ErrorText(fn.error)),
              ran |-> FALSE, raised |-> FALSE]

\* MacroExecutor.validateMacroCode: the callable is made and dropped without
\* being called; what making it throws is caught and becomes the error text.
\* ran: a statement of the source was executed; raised: the call threw.
ValidateMacroCode(code) ==
    LET fn == CreateSandboxedFunction(code)
    IN  IF fn.ok
        THEN [valid |-> TRUE, error |-> Undefined, ran |-> FALSE, raised |-> FALSE]
        ELSE [valid |-> FALSE, error |-> Str(ErrorText(fn.error)),
              ran |-> FALSE, raised |-> FALSE]

\* The input box of the create and edit commands validates what was typed.
ValidateMacroCodeCall ==
    /\ vpc = "idle"
    /\ \E code \in Codes :
        /\ vcode' = code
        /\ validation' = ValidateMacroCode(code)
    /\ vpc' = "done"
    /\ UNCHANGED <<execVars, extractVars, callVars, hostVars>>

\* --------------------------------------------------------------- inputs

DefaultContext ==
    [input |-> <<"Hello World">>, languageId |-> "plaintext",
     filePath |-> "/doc.txt", globals |-> NoGlobals]

DefaultConfig == [kind |-> "object", map |-> MapA1]

InlineJs == [runtime |-> None, hasPath |-> FALSE, filePath |-> PathEmpty, code |-> CodeText]
InlinePython == [runtime |-> "python", hasPath |-> FALSE, filePath |-> PathEmpty, code |-> CodeText]
FilePython == [runtime |-> None, hasPath |-> TRUE, filePath |-> PathPy, code |-> CodeText]

\* The calls explored: every descriptor with one context, and every context,
\* setting and parameter list with one descriptor of each dispatch target.
CallInputs ==
    {[macro |-> m, context |-> DefaultContext, params |-> <<>>, config |-> DefaultConfig] :
        \* Macro: the fields execute reads (runtime?, filePath?, code), the
        \* runtime a MacroRuntime or the 'perl' the file loader assigns.
        m \in {x \in [runtime : {"javascript", "python", "perl"} \cup {None},
                      hasPath : BOOLEAN,
                      filePath : {<<"/", "a", ".", "j", "s">>, PathPy, PathPyUpper,
                                  <<"/", "a", ".", "p", "l">>, <<"/", "a", "p", "y">>,
                                  <<"a", ".", "j", "s">>, PathEmpty},
                      code : Codes] : WellFormedMacro(x)}}
    \cup [macro : {InlineJs, InlinePython, FilePython},
          \* MacroExecutionContext
          context :
              [input : {<<"Hello World">>, <<>>, <<"a", "\n">>},
               languageId : {"plaintext"},
               filePath : {"/doc.txt"},
               globals : {NoGlobals,
                          SomeGlobals([k \in {"a"} |-> "2"]),
                          SomeGlobals([k \in {"b"} |-> "3"]),
                          SomeGlobals(MapA2B3),
                          SomeGlobals([k \in {"a"} |-> Cyclic])}],
          params : {<<>>},
          \* What config.get('macro.globals') yields: an object, a value that is not
          \* a plain object, nothing, or a failure of the settings store.
          config :
              {[kind |-> "object", map |-> MapA1],
               [kind |-> "object", map |-> [k \in {"a", "b"} |-> "1"]],
               [kind |-> "array", map |-> EmptyMap],
               [kind |-> "undefined", map |-> EmptyMap],
               [kind |-> "throws", map |-> EmptyMap]}]
    \cup [macro : {InlineJs, InlinePython, FilePython},
          context : {DefaultContext},
          params : SeqsUpTo({"p", "q", Cyclic}, MaxParams),
          config : {DefaultConfig}]

NotHanded ==
    [to |-> "none", input |-> <<>>, context |-> DefaultContext, params |-> <<>>]

\* ------------------------------------------------------ execute: dispatch

\* The part of execute that runs before its first await (lines 17-75): the
\* context is built, the runtime resolved, and either the bridge is entered
\* or the source compiled, the require function made and the callable called.
ExecuteSync(m, ctx, ps, cfg) ==
    LET ec == EffectiveContext(ctx, cfg)
        rt == GetRuntime(m)
        fn == CreateSandboxedFunction(m.code)
        base == [pc |-> "done", executionContext |-> ec, runtime |-> rt,
                 compiled |-> FALSE, handed |-> NotHanded,
                 outcome |-> "pending", result |-> NoResult]
        caught(e, didCompile) ==
            [base EXCEPT !.compiled = didCompile,
                         !.outcome = ExecuteCatch(e).outcome,
                         !.result = ExecuteCatch(e).result]
    IN  IF cfg.kind = "throws"
        THEN [caught(Err(<<"settings unavailable">>), FALSE)
                EXCEPT !.executionContext = ctx, !.runtime = None]
        ELSE IF rt = "python"
        THEN [base EXCEPT !.pc = "py_ensure"]
        ELSE IF ~fn.ok
        THEN caught(fn.error, TRUE)
        ELSE IF CreateRequireThrows(m)
        THEN caught(Err(<<"The argument 'filename' must be an absolute path string">>), TRUE)
        ELSE [base EXCEPT !.pc = "js_await",
                          !.compiled = TRUE,
                          !.handed = [to |-> "transform", input |-> ec.input,
                                      context |-> ec, params |-> ps]]

\* A caller calls execute(macro, context, params).
ExecuteCall ==
    /\ pc = "idle"
    /\ \E inp \in CallInputs :
        LET next == ExecuteSync(inp.macro, inp.context, inp.params, inp.config)
        IN  /\ macro' = inp.macro
            /\ given' = inp.context
            /\ context' = ContextAfterCall(inp.context, inp.config)
            /\ params' = inp.params
            /\ config' = inp.config
            /\ pc' = next.pc
            /\ executionContext' = next.executionContext
            /\ runtime' = next.runtime
            /\ compiled' = next.compiled
            /\ handed' = next.handed
            /\ outcome' = next.outcome
            /\ result' = next.result
    /\ UNCHANGED <<transformOutcome, tempDir, cleanup, child, stdout, stderr,
                   settled, promise, stdin, unhandled,
                   required, extractVars, validateVars, callVars, hostVars>>

\* execute without the await: a promise is not a string.
ExecuteNotAwaited(o) ==
    IF o.kind = "return"
    THEN [outcome |-> "returned", result |-> ValidateOutput(o.value)]
    ELSE IF o.kind = "resolve"
    THEN [outcome |-> "returned", result |-> ValidateOutput(Obj)]
    ELSE ExecuteCatch(o.value)

\* What execute does with the awaited callable's outcome (lines 75-94).
ExecuteAwaited(o) ==
    IF o.kind \in {"return", "resolve"}
    THEN [outcome |-> "returned", result |-> ValidateOutput(o.value)]
    ELSE ExecuteCatch(o.value)

\* ------------------------------------------------ the require capability

\* How a lookup by a require function ends: the module, or an error code.
LookupOutcomes == {"found", "MODULE_NOT_FOUND", "ERR_REQUIRE_ESM"}

NotRequired ==
    [scope |-> "none", local |-> "none", workspace |-> "none",
     kind |-> "none", from |-> "none", error |-> "none", tried |-> FALSE]

\* The fallback falling back on every error of the file-scoped lookup.
CustomRequireAnyError(local, workspace) ==
    IF local = "found"
    THEN [kind |-> "return", from |-> "file", error |-> "none", tried |-> FALSE]
    ELSE IF workspace = "found"
    THEN [kind |-> "return", from |-> "workspace", error |-> "none", tried |-> TRUE]
    ELSE [kind |-> "throw", from |-> "file", error |-> local, tried |-> TRUE]

\* The customRequire built for a macro with a file path and a workspace
\* root (lines 49-63): what it returns or throws for the outcomes of the
\* file-scoped and the workspace-scoped lookup, and whether the second ran.
CustomRequire(local, workspace) ==
    IF local = "found"
    THEN [kind |-> "return", from |-> "file", error |-> "none", tried |-> FALSE]
    ELSE IF local = "MODULE_NOT_FOUND"
    THEN IF workspace = "found"
         THEN [kind |-> "return", from |-> "workspace", error |-> "none", tried |-> TRUE]
         ELSE [kind |-> "throw", from |-> "file", error |-> local, tried |-> TRUE]
    ELSE [kind |-> "throw", from |-> "file", error |-> local, tried |-> FALSE]

\* A require function made by one createRequire, or the host's own.
PlainRequire(from, lookup) ==
    IF lookup = "found"
    THEN [kind |-> "return", from |-> from, error |-> "none", tried |-> FALSE]
    ELSE [kind |-> "throw", from |-> from, error |-> lookup, tried |-> FALSE]

\* The require function execute hands to transform (lines 37-72), applied
\* to an id whose lookups end as given; root: a workspace folder is open.
RequireGiven(m, root, local, workspace) ==
    LET scope == IF HasFilePath(m) /\ root THEN "both"
                 ELSE IF HasFilePath(m) THEN "file"
                 ELSE IF root THEN "workspace"
                 ELSE "host"
        r == IF scope = "both" THEN CustomRequire(local, workspace)
             ELSE IF scope = "workspace" THEN PlainRequire("workspace", workspace)
             ELSE PlainRequire(scope, local)
    IN  [scope |-> scope,
         local |-> IF scope = "workspace" THEN "none" ELSE local,
         workspace |-> IF scope \in {"both", "workspace"} THEN workspace ELSE "none",
         kind |-> r.kind, from |-> r.from, error |-> r.error, tried |-> r.tried]

\* The running transform calls require(id).
TransformRequires ==
    /\ pc = "js_await"
    /\ DefinesTransform(macro.code)
    /\ required = NotRequired
    /\ \E root \in BOOLEAN, local \in LookupOutcomes, workspace \in LookupOutcomes :
        required' = RequireGiven(macro, root, local, workspace)
    /\ UNCHANGED <<pc, macro, given, context, params, config, executionContext, runtime,
                   compiled, handed, transformOutcome, outcome, result, tempDir,
                   cleanup, child, stdout, stderr, settled, promise, stdin,
                   unhandled, extractVars, validateVars, callVars, hostVars>>

\* The callable settles: transform returned, resolved, threw or rejected.
TransformSettles ==
    /\ pc = "js_await"
    /\ \E o \in (IF DefinesTransform(macro.code)
                 THEN TransformOutcomes
                 \* without a transform the call ends with a ReferenceError
                 ELSE {[kind |-> "throw", value |-> Err(<<"transform is not defined">>)]}) :
        /\ transformOutcome' = o
        /\ outcome' = ExecuteAwaited(o).outcome
        /\ result' = ExecuteAwaited(o).result
    /\ pc' = "done"
    /\ UNCHANGED <<macro, given, context, params, config, executionContext, runtime,
                   compiled, handed, tempDir, cleanup, child, stdout, stderr,
                   settled, promise, stdin, unhandled,
                   required, extractVars, validateVars, callVars, hostVars>>

\* ------------------------------------------------------- python bridge

\* The interpreter path getPythonPath falls back to.
PythonPath == <<"python3">>

\* The subprocess: its state, the errno of a failed spawn, the exit code it
\* closed with and the chunks it wrote to standard output, in order.
NoChild == [state |-> "none", errno |-> "", code |-> "none", wrote |-> <<>>]

\* child.stdin: the texts written to it, whether it was ended, and whether
\* it emitted 'error'.
\* first: the 'error' came before anything had settled the call.
NoStdin == [written |-> <<>>, ended |-> FALSE, errored |-> FALSE, first |-> FALSE]

Resolved(r) == [state |-> "resolved", value |-> r, error |-> Undefined]
Rejected(e) == [state |-> "rejected", value |-> NoResult, error |-> e]

\* The test of the inline code without the trim.
BlankCodeEmptyOnly(code) == Len(code) = 0

\* if (!macro.code || macro.code.trim().length === 0)
BlankCode(code) == Len(Trim(code)) = 0

\* JSON.stringify taking every payload.
SerializableAlways(ec, ps) == TRUE

\* JSON.stringify accepts the payload { input, context, params }.
Serializable(ec, ps) ==
    /\ \A k \in DOMAIN ec.globals.map : ec.globals.map[k] # Cyclic
    /\ \A i \in 1..Len(ps) : ps[i] # Cyclic

\* The payload with the globals left out of the context.
JsonStringifyNoGlobals(ec, ps) ==
    [input |-> ec.input,
     context |-> [input |-> ec.input, languageId |-> ec.languageId,
                  filePath |-> ec.filePath, globals |-> EmptyMap],
     params |-> ps]

\* JSON.stringify({ input: context.input, context, params }) (lines 210-214):
\* the JSON object, its context an object of the context's own fields with
\* the globals as a JSON object of their keys and values.
JsonStringify(ec, ps) ==
    [input |-> ec.input,
     context |-> [input |-> ec.input, languageId |-> ec.languageId,
                  filePath |-> ec.filePath, globals |-> ec.globals.map],
     params |-> ps]

\* MacroExecutor.formatPythonSpawnError
FormatPythonSpawnError(pythonPath, errno) ==
    IF errno = "ENOENT"
    THEN <<"Python interpreter not found. Configure \"", "vcode.macro.python.path",
           "\" or ensure \"">> \o pythonPath \o <<"\" is on PATH.">>
    ELSE <<"Failed to run Python macro: ", "spawn ", errno>>

\* The 'close' listener trimming the captured output.
CloseResultTrimmed(code, out, errText) ==
    IF code = "null"
    THEN Failure(IF Trim(errText) # <<>> THEN Trim(errText)
                 ELSE <<"Python process terminated unexpectedly">>)
    ELSE IF code # "0"
    THEN Failure(IF Trim(errText) # <<>> THEN Trim(errText)
                 ELSE <<"Python exited with code ", code>>)
    ELSE Success(Str(Trim(out)))

\* The 'close' listener reporting the exit code whatever standard error holds.
CloseResultNoStderr(code, out, errText) ==
    IF code = "null"
    THEN Failure(<<"Python process terminated unexpectedly">>)
    ELSE IF code # "0"
    THEN Failure(<<"Python exited with code ", code>>)
    ELSE Success(Str(out))

\* The result the 'close' listener passes to finish (lines 259-277).
CloseResult(code, out, errText) ==
    IF code = "null"
    THEN Failure(IF Trim(errText) # <<>> THEN Trim(errText)
                 ELSE <<"Python process terminated unexpectedly">>)
    ELSE IF code # "0"
    THEN Failure(IF Trim(errText) # <<>> THEN Trim(errText)
                 ELSE <<"Python exited with code ", code>>)
    ELSE Success(Str(out))

\* finish without the settled flag: every call settles anew.
FinishUnguarded(r) == settled' = TRUE /\ promise' = Resolved(r)

\* finish(result): the first call settles the promise, later calls change nothing.
Finish(r) ==
    IF settled
    THEN UNCHANGED <<settled, promise>>
    ELSE settled' = TRUE /\ promise' = Resolved(r)

\* An exception reaches execute's catch clause and ends the call.
Caught(e) ==
    /\ pc' = "done"
    /\ outcome' = ExecuteCatch(e).outcome
    /\ result' = ExecuteCatch(e).result

\* ensurePythonMacroFile up to mkdtemp (lines 164-173): a backing file is
\* used as it is, blank inline code is refused, else a scratch directory is made.
PyEnsure ==
    /\ pc = "py_ensure"
    /\ IF HasFilePath(macro)
       THEN /\ pc' = "py_spawn"
            /\ UNCHANGED <<outcome, result, tempDir>>
       ELSE IF BlankCode(macro.code)
       THEN /\ Caught(Err(<<"Python macro requires a file path or inline code">>))
            /\ UNCHANGED tempDir
       ELSE \E made \in BOOLEAN :
            IF made
            THEN /\ tempDir' = "exists"
                 /\ pc' = "py_write"
                 /\ UNCHANGED <<outcome, result>>
            ELSE /\ Caught(Err(<<"ENOSPC: mkdtemp">>))
                 /\ UNCHANGED tempDir
    /\ UNCHANGED <<macro, given, context, params, config, executionContext, runtime,
                   compiled, handed, transformOutcome, cleanup, child, stdout,
                   stderr, settled, promise, stdin, unhandled,
                   required, extractVars, validateVars, callVars, hostVars>>

\* ensurePythonMacroFile from writeFile on (lines 174-182): the cleanup exists
\* only once the file is written; a failed write throws before it is returned.
PyWriteFile ==
    /\ pc = "py_write"
    /\ \E written \in BOOLEAN :
        IF written
        THEN /\ cleanup' = TRUE
             /\ pc' = "py_spawn"
             /\ UNCHANGED <<outcome, result>>
        ELSE /\ Caught(Err(<<"ENOSPC: write">>))
             /\ UNCHANGED cleanup
    /\ UNCHANGED <<macro, given, context, params, config, executionContext, runtime,
                   compiled, handed, transformOutcome, tempDir, child, stdout,
                   stderr, settled, promise, stdin, unhandled,
                   required, extractVars, validateVars, callVars, hostVars>>

\* executePythonMacro from the try to the end of the promise executor
\* (lines 202-288): the payload is serialized, the child spawned, the
\* listeners attached and the payload written to its standard input.
PySpawn ==
    /\ pc = "py_spawn"
    /\ pc' = "py_wait"
    /\ IF ~Serializable(executionContext, params)
       THEN /\ promise' = Resolved(Failure(<<"Failed to serialize context for Python: ",
                                             "Converting circular structure to JSON">>))
            /\ UNCHANGED <<child, handed, settled, stdin>>
       \* spawn gives a child, an asynchronous 'error', or throws
       ELSE \E how \in {"ok", "ENOENT", "EACCES", "throws"}, writeThrows \in BOOLEAN :
            IF how = "throws"
            THEN /\ promise' = Rejected(Err(<<"spawn E2BIG">>))
                 /\ UNCHANGED <<child, handed, settled, stdin>>
            ELSE /\ child' = [NoChild EXCEPT
                                !.state = IF how = "ok" THEN "running" ELSE "failing",
                                !.errno = IF how = "ok" THEN "" ELSE how]
                 /\ IF writeThrows
                    THEN /\ settled' = TRUE
                         /\ promise' = Resolved(Failure(<<"Failed to send input to Python: ",
                                                         "write EPIPE">>))
                         /\ UNCHANGED <<handed, stdin>>
                    ELSE /\ handed' = [to |-> "stdin", input |-> executionContext.input,
                                       context |-> executionContext, params |-> params]
                         /\ stdin' = [stdin EXCEPT
                                        !.written = Append(stdin.written,
                                                           JsonStringify(executionContext, params)),
                                        !.ended = TRUE]
                         /\ UNCHANGED <<settled, promise>>
    /\ UNCHANGED <<macro, given, context, params, config, executionContext, runtime,
                   compiled, transformOutcome, outcome, result, tempDir, cleanup,
                   stdout, stderr, unhandled,
                   required, extractVars, validateVars, callVars, hostVars>>

\* child.stdout 'data'
ChildStdout ==
    /\ child.state = "running"
    /\ Len(child.wrote) < MaxChunks
    \* What the subprocess writes to standard output: some text of its own, or
    \* the input text of the payload (the bootstrap program's
    \* sys.stdout.write(result) for a transform that returns its input).
    /\ \E c \in ({<<"o", "\n">>} \cup ({handed.input} \ {<<>>})) :
        /\ stdout' = stdout \o c
        /\ child' = [child EXCEPT !.wrote = Append(child.wrote, c)]
    /\ UNCHANGED <<pc, macro, given, context, params, config, executionContext, runtime,
                   compiled, handed, transformOutcome, outcome, result, tempDir,
                   cleanup, stderr, settled, promise, stdin, unhandled,
                   required, extractVars, validateVars, callVars, hostVars>>

\* child.stderr 'data'
ChildStderr ==
    /\ child.state = "running"
    /\ Len(stderr) < MaxChunks
    /\ \E c \in {<<" ", "e", "\n">>, <<"\n">>} : stderr' = stderr \o c
    /\ UNCHANGED <<pc, macro, given, context, params, config, executionContext, runtime,
                   compiled, handed, transformOutcome, outcome, result, tempDir,
                   cleanup, child, stdout, settled, promise, stdin, unhandled,
                   required, extractVars, validateVars, callVars, hostVars>>

\* child 'error': the spawn failed.
ChildError ==
    /\ child.state = "failing"
    /\ Finish(Failure(FormatPythonSpawnError(PythonPath, child.errno)))
    /\ child' = [child EXCEPT !.state = "errored"]
    /\ UNCHANGED <<pc, macro, given, context, params, config, executionContext, runtime,
                   compiled, handed, transformOutcome, outcome, result, tempDir,
                   cleanup, stdout, stderr, stdin, unhandled,
                   required, extractVars, validateVars, callVars, hostVars>>

\* child 'close', with the exit code of a child that ran or the errno of a
\* failed spawn.
ChildClose ==
    /\ child.state \in {"running", "errored"}
    /\ \E code \in (IF child.state = "running" THEN {"0", "1", "null"} ELSE {"-2"}) :
        /\ Finish(CloseResult(code, stdout, stderr))
        /\ child' = [child EXCEPT !.state = "closed", !.code = code]
    /\ UNCHANGED <<pc, macro, given, context, params, config, executionContext, runtime,
                   compiled, handed, transformOutcome, outcome, result, tempDir,
                   cleanup, stdout, stderr, stdin, unhandled,
                   required, extractVars, validateVars, callVars, hostVars>>

\* child.stdin 'error': the payload could not be delivered (a broken pipe,
\* the interpreter gone before it read). No listener is attached to
\* child.stdin, so the event is raised in the host as an uncaught exception;
\* the promise is left to the 'error' and 'close' listeners of the child.
StdinError ==
    /\ child.state \in {"running", "failing", "errored"}
    /\ stdin.written # <<>>
    /\ ~stdin.errored
    /\ stdin' = [stdin EXCEPT !.errored = TRUE, !.first = ~settled]
    /\ unhandled' = unhandled \cup {<<"write EPIPE">>}
    /\ UNCHANGED <<pc, macro, given, context, params, config, executionContext, runtime,
                   compiled, handed, transformOutcome, outcome, result, tempDir,
                   cleanup, child, stdout, stderr, settled, promise,
                   required, extractVars, validateVars, callVars, hostVars>>

\* The awaited promise has settled: the finally clause runs the cleanup, if
\* there is one, and execute returns the result or catches what was thrown
\* (lines 289-293 and 89-94).
PyFinally ==
    /\ pc = "py_wait"
    /\ promise.state # "pending"
    /\ \E removed \in (IF cleanup THEN BOOLEAN ELSE {TRUE}) :
        IF ~removed
        THEN /\ Caught(Err(<<"EBUSY: rm">>))
             /\ UNCHANGED tempDir
        ELSE /\ tempDir' = IF cleanup THEN "removed" ELSE tempDir
             /\ IF promise.state = "rejected"
                THEN Caught(promise.error)
                ELSE /\ pc' = "done"
                     /\ outcome' = "returned"
                     /\ result' = promise.value
    /\ UNCHANGED <<macro, given, context, params, config, executionContext, runtime,
                   compiled, handed, transformOutcome, cleanup, child, stdout,
                   stderr, settled, promise, stdin, unhandled,
                   required, extractVars, validateVars, callVars, hostVars>>

\* ------------------------------------------- concurrent bridge executions

\* Several execute calls on inline python macros, each the steps of
\* ensurePythonMacroFile and executePythonMacro above, interleaved at their
\* awaits and events. The locals of a call (tempDir, child, stdout, stderr,
\* settled) are per call; the file system is shared. The source and the
\* input of a call are named after the call.
CallIds == <<"call1", "call2", "call3">>
Calls == {CallIds[i] : i \in 1..NumCalls}

\* The names mkdtemp can give to a scratch directory.
ScratchIds == <<"vcode-macro-1", "vcode-macro-2", "vcode-macro-3">>
ScratchNames == {ScratchIds[i] : i \in 1..NumCalls}

NoFile == "none"

\* A scratch directory of one fixed name.
MkdtempFixed(existing) == {ScratchIds[1]}

\* fs.promises.mkdtemp(prefix): a directory that did not exist is created.
Mkdtemp(existing) == ScratchNames \ existing

NotSpawned == [state |-> "none", script |-> NoFile, payload |-> "", code |-> "none"]

\* ensurePythonMacroFile up to mkdtemp, for a macro with inline code.
CallEnsure(c) ==
    /\ cpc[c] = "idle"
    /\ \E n \in Mkdtemp(fsDirs) :
        /\ fsDirs' = fsDirs \cup {n}
        /\ cdir' = [cdir EXCEPT ![c] = n]
    /\ cpc' = [cpc EXCEPT ![c] = "made"]
    /\ UNCHANGED <<fsFile, cchild, cstdout, cstderr, csettled, cresult,
                   execVars, extractVars, validateVars, hostVars>>

\* ensurePythonMacroFile from writeFile on: macro.py holds the call's code.
CallWriteFile(c) ==
    /\ cpc[c] = "made"
    /\ fsFile' = [fsFile EXCEPT ![cdir[c]] = c]
    /\ cpc' = [cpc EXCEPT ![c] = "written"]
    /\ UNCHANGED <<fsDirs, cdir, cchild, cstdout, cstderr, csettled, cresult,
                   execVars, extractVars, validateVars, hostVars>>

\* executePythonMacro up to the end of the promise executor: the child is
\* spawned on the call's file path and given the call's payload.
CallSpawn(c) ==
    /\ cpc[c] = "written"
    /\ cchild' = [cchild EXCEPT ![c] = [NotSpawned EXCEPT !.state = "spawned",
                                                           !.payload = c]]
    /\ cpc' = [cpc EXCEPT ![c] = "waiting"]
    /\ UNCHANGED <<fsDirs, fsFile, cdir, cstdout, cstderr, csettled, cresult,
                   execVars, extractVars, validateVars, hostVars>>

\* The bootstrap program loads the macro file it was started on.
CallChildLoads(c) ==
    /\ cchild[c].state = "spawned"
    /\ cchild' = [cchild EXCEPT ![c].state = "loaded",
                                ![c].script = IF cdir[c] \in fsDirs
                                              THEN fsFile[cdir[c]]
                                              ELSE NoFile]
    /\ UNCHANGED <<fsDirs, fsFile, cpc, cdir, cstdout, cstderr, csettled, cresult,
                   execVars, extractVars, validateVars, hostVars>>

\* child.stdout 'data' of one call: the output of the script the child
\* loaded on the payload it was given.
CallChildStdout(c) ==
    /\ cchild[c].state = "loaded"
    /\ cchild[c].script # NoFile
    /\ Len(cstdout[c]) < 2 * MaxChunks
    /\ cstdout' = [cstdout EXCEPT ![c] = cstdout[c] \o <<cchild[c].script, cchild[c].payload>>]
    /\ UNCHANGED <<fsDirs, fsFile, cpc, cdir, cchild, cstderr, csettled, cresult,
                   execVars, extractVars, validateVars, hostVars>>

\* child.stderr 'data' of one call.
CallChildStderr(c) ==
    /\ cchild[c].state = "loaded"
    /\ cstderr[c] = <<>>
    /\ cstderr' = [cstderr EXCEPT ![c] = <<cchild[c].script, "\n">>]
    /\ UNCHANGED <<fsDirs, fsFile, cpc, cdir, cchild, cstdout, csettled, cresult,
                   execVars, extractVars, validateVars, hostVars>>

\* child 'close' of one call: finish settles the call's own promise.
CallChildClose(c) ==
    /\ cchild[c].state = "loaded"
    /\ \E code \in (IF cchild[c].script = NoFile THEN {"1"} ELSE {"0", "1"}) :
        /\ cchild' = [cchild EXCEPT ![c].state = "closed", ![c].code = code]
        /\ IF csettled[c]
           THEN UNCHANGED <<csettled, cresult>>
           ELSE /\ csettled' = [csettled EXCEPT ![c] = TRUE]
                /\ cresult' = [cresult EXCEPT
                                 ![c] = CloseResult(code, cstdout[c], cstderr[c])]
    /\ UNCHANGED <<fsDirs, fsFile, cpc, cdir, cstdout, cstderr,
                   execVars, extractVars, validateVars, hostVars>>

\* The finally clause of one call: its cleanup removes its tempDir.
CallFinally(c) ==
    /\ cpc[c] = "waiting"
    /\ csettled[c]
    /\ fsDirs' = fsDirs \ {cdir[c]}
    /\ fsFile' = [fsFile EXCEPT ![cdir[c]] = NoFile]
    /\ cpc' = [cpc EXCEPT ![c] = "done"]
    /\ UNCHANGED <<cdir, cchild, cstdout, cstderr, csettled, cresult,
                   execVars, extractVars, validateVars, hostVars>>

\* --------------------------------------------------- extractParameters

KwFunction == <<"f", "u", "n", "c", "t", "i", "o", "n">>
KwTransform == <<"t", "r", "a", "n", "s", "f", "o", "r", "m">>
NameInput == <<"i", "n", "p", "u", "t">>
NameContext == <<"c", "o", "n", "t", "e", "x", "t">>

\* The text of s from position i on starts with lit.
StartsWithAt(s, i, lit) ==
    /\ i >= 1
    /\ i + Len(lit) - 1 <= Len(s)
    /\ SubSeq(s, i, i + Len(lit) - 1) = lit

\* The first position from i on that holds no whitespace (Len(s) + 1 if none).
RECURSIVE SkipWhitespace(_, _)
SkipWhitespace(s, i) ==
    IF i <= Len(s) /\ s[i] \in Whitespace THEN SkipWhitespace(s, i + 1) ELSE i

\* The first position from i on that holds c (0 if none).
RECURSIVE IndexOf(_, _, _)
IndexOf(s, c, i) ==
    IF i > Len(s) THEN 0 ELSE IF s[i] = c THEN i ELSE IndexOf(s, c, i + 1)

\* function\s+transform\s*\(([^)]*)\) matched with "function" at position i:
\* the positions of the parentheses, or <<0, 0>>. Whitespace runs are matched
\* whole, since neither "transform" nor "(" starts with whitespace.
CoreMatchAt(s, i) ==
    LET a == i + Len(KwFunction)
        b == SkipWhitespace(s, a)
        d == SkipWhitespace(s, b + Len(KwTransform))
        e == IndexOf(s, ")", d + 1)
    IN  IF /\ StartsWithAt(s, i, KwFunction)
           /\ b > a
           /\ StartsWithAt(s, b, KwTransform)
           /\ d <= Len(s)
           /\ s[d] = "("
           /\ e # 0
        THEN <<d, e>>
        ELSE <<0, 0>>

\* transform\s*\(([^)]*)\) matched with "transform" at position i.
LooseMatchAt(s, i) ==
    LET d == SkipWhitespace(s, i + Len(KwTransform))
        e == IndexOf(s, ")", d + 1)
    IN  IF /\ StartsWithAt(s, i, KwTransform)
           /\ d <= Len(s)
           /\ s[d] = "("
           /\ e # 0
        THEN <<d, e>>
        ELSE <<0, 0>>

NoMatch == [found |-> FALSE, group |-> <<>>]

\* The match of a pattern that does not ask for the function keyword.
FunctionMatchLoose(code) ==
    LET hits == {i \in 1..Len(code) : LooseMatchAt(code, i) # <<0, 0>>}
    IN  IF hits = {}
        THEN NoMatch
        ELSE LET i == CHOOSE x \in hits : \A y \in hits : x <= y
                 m == LooseMatchAt(code, i)
             IN [found |-> TRUE, group |-> SubSeq(code, m[1] + 1, m[2] - 1)]

\* code.match(/(?:export\s+)?(?:async\s+)?function\s+transform\s*\(([^)]*)\)/):
\* the leftmost match and its group 1. The optional export and async
\* prefixes sit directly before a "function" and hold no "function"
\* themselves, so the leftmost match is the one of the leftmost "function"
\* that matches the rest of the pattern, with or without the prefixes.
FunctionMatch(code) ==
    LET hits == {i \in 1..Len(code) : CoreMatchAt(code, i) # <<0, 0>>}
    IN  IF hits = {}
        THEN NoMatch
        ELSE LET i == CHOOSE x \in hits : \A y \in hits : x <= y
                 m == CoreMatchAt(code, i)
             IN [found |-> TRUE, group |-> SubSeq(code, m[1] + 1, m[2] - 1)]

\* String.prototype.split with a one-character separator.
RECURSIVE Split(_, _)
Split(s, c) ==
    LET i == IndexOf(s, c, 1)
    IN  IF i = 0
        THEN <<s>>
        ELSE <<SubSeq(s, 1, i - 1)>> \o Split(SubSeq(s, i + 1, Len(s)), c)

\* String.prototype.includes with a one-character needle.
Includes(s, c) == IndexOf(s, c, 1) # 0

\* The callback of params.map (lines 361-376): the name of one piece of the
\* parameter list, or the empty text for a piece that opens a pattern.
CleanParameter(p) ==
    LET trimmed == Trim(p)
        paramName == IF Includes(trimmed, "=")
                     THEN Trim(Split(trimmed, "=")[1])
                     ELSE trimmed
    IN  IF StartsWith(paramName, <<"{">>) \/ StartsWith(paramName, <<"[">>)
        THEN <<>>
        ELSE paramName

\* The test of the second filter (lines 379-383).
IsExtraParameter(p) ==
    /\ p # NameInput
    /\ p # NameContext
    /\ ~StartsWith(p, <<".", ".", ".">>)

\* .filter(p => p !== '') (line 376)
RECURSIVE FilterNonEmpty(_)
FilterNonEmpty(seq) ==
    IF seq = <<>>
    THEN <<>>
    ELSE (IF Head(seq) # <<>> THEN <<Head(seq)>> ELSE <<>>) \o FilterNonEmpty(Tail(seq))

\* params.filter(...) (lines 379-383)
RECURSIVE FilterExtra(_)
FilterExtra(seq) ==
    IF seq = <<>>
    THEN <<>>
    ELSE (IF IsExtraParameter(Head(seq)) THEN <<Head(seq)>> ELSE <<>>)
            \o FilterExtra(Tail(seq))

\* MacroExecutor.extractParameters
ExtractParameters(code) ==
    LET functionMatch == FunctionMatch(code)
    IN  IF ~functionMatch.found
        THEN <<>>
        ELSE IF Trim(functionMatch.group) = <<>>
        THEN <<>>
        ELSE LET pieces == Split(functionMatch.group, ",")
                 cleaned == [i \in 1..Len(pieces) |-> CleanParameter(pieces[i])]
             IN FilterExtra(FilterNonEmpty(cleaned))

\* ------------------------------------------ sources given to extractParameters

\* The parameters a transform declaration can declare: a plain name, a name
\* with a default value, a rest parameter, an object or array pattern.
FormInput == [kind |-> "simple", name |-> <<"i", "n", "p", "u", "t">>, text |-> <<"i", "n", "p", "u", "t">>]
FormContext == [kind |-> "simple", name |-> <<"c", "o", "n", "t", "e", "x", "t">>, text |-> <<"c", "o", "n", "t", "e", "x", "t">>]
FormSep == [kind |-> "simple", name |-> <<"s", "e", "p">>, text |-> <<"s", "e", "p">>]
FormCount == [kind |-> "simple", name |-> <<"c", "o", "u", "n", "t">>, text |-> <<"c", "o", "u", "n", "t">>]

ParameterForms ==
    {FormInput, FormContext, FormSep, FormCount,
     [kind |-> "simple", name |-> <<"n">>, text |-> <<"n", " ", "=", " ", "1">>],
     [kind |-> "simple", name |-> <<"d">>, text |-> <<"d", " ", "=", " ", "\"", ",", "\"">>],
     [kind |-> "rest", name |-> <<"r", "e", "s", "t">>,
      text |-> <<".", ".", ".", "r", "e", "s", "t">>],
     [kind |-> "pattern", name |-> <<"o", "p", "t">>, text |-> <<"{", "o", "p", "t", "}">>],
     [kind |-> "pattern", name |-> <<"a">>, text |-> <<"{", "a", ",", " ", "b", "}">>],
     [kind |-> "pattern", name |-> <<"x">>, text |-> <<"[", "x", ",", " ", "y", "]">>]}

\* The parameter lists of at most n parameters, no parameter declared twice.
RECURSIVE DeclarationsUpTo(_)
DeclarationsUpTo(n) ==
    IF n = 0
    THEN {<<>>}
    ELSE LET shorter == DeclarationsUpTo(n - 1)
             fresh(l) == {f \in ParameterForms : \A i \in 1..Len(l) : l[i] # f}
         IN shorter \cup UNION {{Append(l, f) : f \in fresh(l)} : l \in shorter}

\* The text of a parameter list: the parameters separated by ", ".
RECURSIVE RenderParameters(_)
RenderParameters(l) ==
    IF l = <<>>
    THEN <<>>
    ELSE IF Len(l) = 1
    THEN l[1].text
    ELSE l[1].text \o <<",", " ">> \o RenderParameters(Tail(l))

\* The ways a declaration of transform can start.
KwExport == <<"e", "x", "p", "o", "r", "t">>
KwAsync == <<"a", "s", "y", "n", "c">>
HeadPlain == KwFunction \o <<" ">> \o KwTransform
DeclarationHeads ==
    {HeadPlain,
     KwAsync \o <<" ">> \o HeadPlain,
     KwExport \o <<" ">> \o HeadPlain,
     KwExport \o <<" ">> \o KwAsync \o <<" ">> \o HeadPlain,
     KwFunction \o <<" ", " ">> \o KwTransform \o <<" ">>}

BodyText == <<" ", "{", "}">>

\* A source that declares transform with the parameter list l.
RenderSource(head, l) == head \o <<"(">> \o RenderParameters(l) \o <<")">> \o BodyText

\* Sources that hold no function declaration named transform.
ArgumentList == <<"(">> \o NameInput \o <<",", " ", "s", "e", "p">> \o <<")">>
\* transform(input, sep)
SourceCallOnly == KwTransform \o ArgumentList

Declared(l) == [present |-> TRUE, params |-> l]

\* The sources explored, each with what it declares.
SourceInputs ==
    {[source |-> RenderSource(HeadPlain, l), declared |-> Declared(l)] :
        l \in DeclarationsUpTo(MaxDecl)}
    \cup {[source |-> RenderSource(h, l), declared |-> Declared(l)] :
            h \in DeclarationHeads,
            l \in DeclarationsUpTo(1) \cup {<<FormInput, FormContext, FormSep, FormCount>>}}
    \cup {[source |-> h \o <<"(">> \o b \o <<")">> \o BodyText, declared |-> Declared(<<>>)] :
            h \in DeclarationHeads, b \in {<<>>, <<" ">>, <<"\n", " ">>}}
    \cup {[source |-> u, declared |-> [present |-> FALSE, params |-> <<>>]] :
            u \in
                {<<>>,
                 \* const transform = (input, sep) => input
                 <<"c", "o", "n", "s", "t", " ">> \o KwTransform \o <<" ", "=", " ">>
                     \o ArgumentList \o <<" ", "=", ">", " ">> \o NameInput,
                 \* function run(input, sep) {}
                 KwFunction \o <<" ", "r", "u", "n">> \o ArgumentList \o BodyText,
                 \* function transformAll(input, sep) {}
                 HeadPlain \o <<"A", "l", "l">> \o ArgumentList \o BodyText,
                 SourceCallOnly}}

\* A macro's source is at hand (the macro picked in the command palette).
ChooseSource ==
    /\ xpc = "idle"
    /\ \E inp \in SourceInputs :
        /\ source' = inp.source
        /\ declared' = inp.declared
    /\ xpc' = "chosen"
    /\ UNCHANGED <<extracted, entered, bound, execVars, validateVars, callVars, hostVars>>

\* The caller calls extractParameters(code).
ExtractParametersCall ==
    /\ xpc = "chosen"
    /\ extracted' = ExtractParameters(source)
    /\ xpc' = "done"
    /\ UNCHANGED <<source, declared, entered, bound, execVars, validateVars, callVars, hostVars>>

\* ------------------------------------- prompting and invoking transform

ArgInput == <<"input">>
ArgContext == <<"context">>
ArgUndefined == <<"undefined">>

\* The value the user enters at the k-th prompt.
Prompted(k) == <<"value", k>>

NothingBound == [n \in {} |-> ArgUndefined]

\* The call transform(...args) of the wrapper (line 306): arguments are bound
\* to the declared parameters by position; a plain parameter, with or
\* without a default, takes the argument at its position (undefined when
\* there is none), a pattern or a rest parameter binds no name of its own,
\* and nothing is left for what follows a rest parameter.
Bind(decl, args) ==
    LET simple == {i \in 1..Len(decl) : decl[i].kind = "simple"}
        afterRest(i) == \E j \in 1..(i - 1) : decl[j].kind = "rest"
    IN  [n \in {decl[i].name : i \in simple} |->
            LET i == CHOOSE j \in simple : decl[j].name = n
            IN IF i <= Len(args) /\ ~afterRest(i) THEN args[i] ELSE ArgUndefined]

\* The executeMacro command after extractParameters (lines 64-88): one value
\* is asked for each name, in order, and execute calls
\* transform(input, context, ...paramValues).
PromptAndInvoke ==
    /\ xpc = "done"
    /\ LET values == [k \in 1..Len(extracted) |-> Prompted(k)]
       IN  /\ entered' = values
           /\ bound' = Bind(IF declared.present THEN declared.params ELSE <<>>,
                            <<ArgInput, ArgContext>> \o values)
    /\ xpc' = "invoked"
    /\ UNCHANGED <<source, declared, extracted, execVars, validateVars, callVars, hostVars>>

\* -------------------------------------------------------- MacroManager

NumLoads == 2

\* Ids are texts: `macro-${...}` of generateId for the settings macros,
\* `file-${path.basename(uri.fsPath)}` of the loader for the file macros.
FileId(f) == <<"file-">> \o f

\* getDefaultMacros
DefaultMacros ==
    <<[id |-> <<"macro-", "1">>, name |-> "Uppercase"],
      [id |-> <<"macro-", "2">>, name |-> "Lowercase"],
      [id |-> <<"macro-", "3">>, name |-> "Remove Whitespace"],
      [id |-> <<"macro-", "4">>, name |-> "Sort Lines"]>>

\* loadMacros: this.macros = stored || this.getDefaultMacros()
LoadMacros(stored) == IF stored.set THEN stored.list ELSE DefaultMacros

\* getMacros: the settings macros, then the file macros, by id.
GetMacros ==
    {macros[i].id : i \in 1..Len(macros)} \cup DOMAIN fileMacros

\* registerFileMacro: this.fileMacros.set(macro.id, macro)
RegisterFileMacro(id, path) ==
    [i \in DOMAIN fileMacros \cup {id} |-> IF i = id THEN path ELSE fileMacros[i]]

\* unregisterFileMacro: this.fileMacros.delete(id)
UnregisterFileMacro(id) ==
    [i \in DOMAIN fileMacros \ {id} |-> fileMacros[i]]

\* What a call of a MacroManager method did: the list and the stored
\* setting it leaves, what it returned, whether it wrote the setting and
\* whether it fired onDidChangeMacros.
Did(op, id, ms, stored, returned, wrote, fired) ==
    [op |-> op, id |-> id, macros |-> ms, settings |-> stored, returned |-> returned,
     wrote |-> wrote, fired |-> fired, before |-> macros]

\* A mutation from its assignment on: saveMacros awaits config.update; when
\* that resolves the setting holds the list and the event is fired, when it
\* rejects the method rejects and the list stays as assigned.
Saving(op, id, ms, saves) ==
    IF saves
    THEN Did(op, id, ms, [set |-> TRUE, list |-> ms], "true", TRUE, TRUE)
    ELSE Did(op, id, ms, settings, "threw", TRUE, FALSE)

\* addMacro(name, description, code), with the id generateId yields.
AddMacro(id, name, saves) ==
    Saving("addMacro", id, Append(macros, [id |-> id, name |-> name]), saves)

\* updateMacro(id, updates)
UpdateMacro(id, name, saves) ==
    LET found == {i \in 1..Len(macros) : macros[i].id = id}
    IN  IF id \in DOMAIN fileMacros \/ found = {}
        THEN Did("updateMacro", id, macros, settings, "false", FALSE, FALSE)
        ELSE LET index == CHOOSE i \in found : \A j \in found : i <= j
             IN  Saving("updateMacro", id, [macros EXCEPT ![index].name = name], saves)

\* deleteMacro(id)
DeleteMacro(id, saves) ==
    LET found == {i \in 1..Len(macros) : macros[i].id = id}
    IN  IF id \in DOMAIN fileMacros \/ found = {}
        THEN Did("deleteMacro", id, macros, settings, "false", FALSE, FALSE)
        ELSE LET index == CHOOSE i \in found : \A j \in found : i <= j
             IN  Saving("deleteMacro", id,
                        SubSeq(macros, 1, index - 1) \o SubSeq(macros, index + 1, Len(macros)),
                        saves)

\* The command vcode.addMacro once its three inputs are given; config.update
\* resolves or rejects.
AddMacroCommand ==
    /\ <<"macro-", "5">> \notin GetMacros
    /\ \E saves \in BOOLEAN :
        LET did == AddMacro(<<"macro-", "5">>, "added", saves)
        IN  /\ macros' = did.macros
            /\ settings' = did.settings
            /\ last' = did
            /\ message' = IF did.returned = "threw" THEN "Failed to add macro"
                          ELSE "added successfully"
    /\ UNCHANGED <<fileMacros, directories, disk, watchers, loads, lpc,
                   execVars, extractVars, validateVars, callVars>>

\* What the user picks in a command's list: one of the macros getMacros()
\* gave (the first default, the added one, a file macro), or a macro that
\* has left the registry while the command waited for its inputs.
Picks ==
    ({<<"macro-", "1">>, <<"macro-", "5">>, FileId(<<"a", ".js">>)} \cap GetMacros)
        \cup {<<"macro-", "9">>}

\* The command vcode.editMacro: a macro picked from getMacros() (the list
\* can change while the inputs are asked for, so the pick can be stale),
\* then updateMacro, whose boolean the command does not read.
EditMacroCommand ==
    /\ GetMacros # {}
    /\ \E pick \in Picks, saves \in BOOLEAN :
        LET did == UpdateMacro(pick, "edited", saves)
        IN  /\ macros' = did.macros
            /\ settings' = did.settings
            /\ last' = did
            /\ message' = IF did.returned = "threw" THEN "Failed to update macro"
                          ELSE "updated successfully"
    /\ UNCHANGED <<fileMacros, directories, disk, watchers, loads, lpc,
                   execVars, extractVars, validateVars, callVars>>

\* The command vcode.deleteMacro, confirmed with Yes.
DeleteMacroCommand ==
    /\ GetMacros # {}
    /\ \E pick \in Picks, saves \in BOOLEAN :
        LET did == DeleteMacro(pick, saves)
        IN  /\ macros' = did.macros
            /\ settings' = did.settings
            /\ last' = did
            /\ message' = IF did.returned = "threw" THEN "Failed to delete macro"
                          ELSE "deleted successfully"
    /\ UNCHANGED <<fileMacros, directories, disk, watchers, loads, lpc,
                   execVars, extractVars, validateVars, callVars>>

\* vcode.macros is edited in the settings: the listener of the constructor
\* loads the stored list and fires the event.
ConfigurationChanged ==
    /\ \E stored \in {[set |-> FALSE, list |-> <<>>],
                      [set |-> TRUE, list |-> <<>>],
                      [set |-> TRUE, list |-> <<[id |-> <<"macro-", "7">>, name |-> "stored"]>>]} :
        /\ stored # settings
        /\ settings' = stored
        /\ macros' = LoadMacros(stored)
        /\ last' = Did("loadMacros", <<>>, LoadMacros(stored), stored, "void", FALSE, TRUE)
    /\ UNCHANGED <<fileMacros, message, directories, disk, watchers, loads, lpc,
                   execVars, extractVars, validateVars, callVars>>

\* ----------------------------------------------------- MacroFileLoader

\* The directories a setting can name: the default one, which the loader
\* creates, another that exists, and one that does not. A workspace folder
\* is open.
Dirs == {"macro", "more", "gone"}

\* The file names, in the order readdirSync lists them.
FileOrder == <<<<"a", ".js">>, <<"n", ".txt">>>>

\* The patterns of the watchers made for a directory.
Patterns == <<<<"*", ".js">>, <<"*", ".py">>, <<"*", ".pl">>>>

\* file.endsWith('.js') || file.endsWith('.py') || file.endsWith('.pl')
IsMacroFile(f) ==
    EndsWith(f, <<".js">>) \/ EndsWith(f, <<".py">>) \/ EndsWith(f, <<".pl">>)

\* A watcher of the list fires for the file f of the directory d.
Watched(d, f) ==
    \E i \in 1..Len(watchers) :
        watchers[i].dir = d /\ EndsWith(f, Tail(watchers[i].pattern))

\* The three watchers created for a directory, in the order pushed.
WatchersOf(d) == [i \in 1..Len(Patterns) |-> [dir |-> d, pattern |-> Patterns[i]]]

\* loadAllMacros up to its first readFile: the macro files readdirSync lists.
FilesOf(d) ==
    LET Listed(f) == <<d, f>> \in disk /\ IsMacroFile(f)
    IN  SelectSeq(FileOrder, Listed)

\* The loop of loadConfiguredMacros from the directories ds on, the list
\* being ws: up to the next readFile it awaits, or to its end. A directory
\* that does not exist is passed over, one with no macro file is watched.
RECURSIVE EnterDirs(_, _)
EnterDirs(ds, ws) ==
    IF ds = <<>>
    THEN [state |-> "idle", dirs |-> <<>>, files |-> <<>>, watchers |-> ws]
    ELSE IF Head(ds) = "gone"
    THEN EnterDirs(Tail(ds), ws)
    ELSE IF FilesOf(Head(ds)) # <<>>
    THEN [state |-> "reading", dirs |-> ds, files |-> FilesOf(Head(ds)), watchers |-> ws]
    ELSE EnterDirs(Tail(ds), ws \o WatchersOf(Head(ds)))

\* loadConfiguredMacros from its start: the watchers disposed, the setting
\* read, the loop entered.
LoadConfiguredMacros(setting) ==
    LET Configured(d) == d \in setting
    IN  EnterDirs(SelectSeq(<<"gone", "macro", "more">>, Configured), <<>>)

\* The constructor's initialize(): the first loadConfiguredMacros; the
\* listener for the setting is registered once it has finished.
Initialize ==
    /\ lpc = "new"
    /\ LET at == LoadConfiguredMacros(directories)
       IN  /\ watchers' = at.watchers
           /\ loads' = [loads EXCEPT ![1] =
                        [state |-> at.state, dirs |-> at.dirs, files |-> at.files,
                         initial |-> TRUE]]
           /\ lpc' = IF at.state = "idle" THEN "listening" ELSE "initializing"
    /\ UNCHANGED <<macros, fileMacros, settings, last, message, directories, disk,
                   execVars, extractVars, validateVars, callVars>>

\* vcode.macro.directories is edited in the settings: reloadMacros, if the
\* listener is registered by now.
ReloadMacros ==
    /\ \E setting \in SUBSET Dirs :
        /\ setting # directories
        /\ directories' = setting
        /\ IF lpc = "listening"
           THEN \E r \in 1..NumLoads :
                   /\ loads[r].state = "idle"
                   /\ \A q \in 1..(r - 1) : loads[q].state # "idle"
                   /\ LET at == LoadConfiguredMacros(setting)
                      IN  /\ watchers' = at.watchers
                          /\ loads' = [loads EXCEPT ![r] =
                                [state |-> at.state, dirs |-> at.dirs,
                                 files |-> at.files, initial |-> FALSE]]
           ELSE UNCHANGED <<watchers, loads>>
    /\ UNCHANGED <<macros, fileMacros, settings, last, message, disk, lpc,
                   execVars, extractVars, validateVars, callVars>>

\* loadMacroFromFile registering what it read, if it could read it.
Registering(present, d, f) ==
    IF present
    THEN /\ fileMacros' = RegisterFileMacro(FileId(f), <<d, f>>)
         /\ last' = Did("registerFileMacro", FileId(f), macros, settings, "void", FALSE, TRUE)
    ELSE UNCHANGED <<fileMacros, last>>

\* The readFile a run awaits completes: loadMacroFromFile registers the
\* macro, or logs the error of a file that is gone; loadAllMacros goes on to
\* the next file, and after the last one the directory is watched and the
\* loop of loadConfiguredMacros goes on.
LoadMacroFromFile(r) ==
    /\ loads[r].state = "reading"
    /\ LET d == Head(loads[r].dirs)
           f == Head(loads[r].files)
           rest == Tail(loads[r].files)
           at == IF rest # <<>>
                 THEN [state |-> "reading", dirs |-> loads[r].dirs, files |-> rest,
                       watchers |-> watchers]
                 ELSE EnterDirs(Tail(loads[r].dirs), watchers \o WatchersOf(d))
       IN  /\ Registering(<<d, f>> \in disk, d, f)
           /\ watchers' = at.watchers
           /\ loads' = [loads EXCEPT ![r] =
                        [state |-> at.state, dirs |-> at.dirs, files |-> at.files,
                         initial |-> loads[r].initial]]
           /\ lpc' = IF loads[r].initial /\ at.state = "idle" THEN "listening" ELSE lpc
    /\ UNCHANGED <<macros, settings, message, directories, disk,
                   execVars, extractVars, validateVars, callVars>>

\* A file appears in a directory: onDidCreate of a watcher on it, if there
\* is one, loads it.
FileCreated(d, f) ==
    /\ <<d, f>> \notin disk
    /\ disk' = disk \cup {<<d, f>>}
    /\ Registering(Watched(d, f), d, f)
    /\ UNCHANGED <<macros, settings, message, directories, watchers, loads, lpc,
                   execVars, extractVars, validateVars, callVars>>

\* A file is written: onDidChange loads it again.
FileChanged(d, f) ==
    /\ <<d, f>> \in disk
    /\ Watched(d, f)
    /\ Registering(TRUE, d, f)
    /\ UNCHANGED <<macros, settings, message, directories, disk, watchers, loads, lpc,
                   execVars, extractVars, validateVars, callVars>>

\* A file is removed: onDidDelete, removeMacroFromFile.
FileDeleted(d, f) ==
    /\ <<d, f>> \in disk
    /\ disk' = disk \ {<<d, f>>}
    /\ IF Watched(d, f)
       THEN /\ fileMacros' = UnregisterFileMacro(FileId(f))
            /\ last' = Did("unregisterFileMacro", FileId(f), macros, settings, "void",
                           FALSE, TRUE)
       ELSE UNCHANGED <<fileMacros, last>>
    /\ UNCHANGED <<macros, settings, message, directories, watchers, loads, lpc,
                   execVars, extractVars, validateVars, callVars>>

\* ------------------------------------------------------- specification

ExecInit ==
    /\ pc = "idle"
    /\ macro = InlineJs
    /\ given = DefaultContext
    /\ context = DefaultContext
    /\ params = <<>>
    /\ config = DefaultConfig
    /\ executionContext = DefaultContext
    /\ runtime = None
    /\ compiled = FALSE
    /\ handed = NotHanded
    /\ transformOutcome = [kind |-> "none", value |-> Undefined]
    /\ outcome = "pending"
    /\ result = NoResult
    /\ tempDir = "none"
    /\ cleanup = FALSE
    /\ child = NoChild
    /\ stdout = <<>>
    /\ stderr = <<>>
    /\ settled = FALSE
    /\ promise = [state |-> "pending", value |-> NoResult, error |-> Undefined]
    /\ stdin = NoStdin
    /\ unhandled = {}
    /\ required = NotRequired

ExtractIdle ==
    /\ source = <<>>
    /\ declared = <<>>
    /\ extracted = <<>>
    /\ xpc = "idle"
    /\ entered = <<>>
    /\ bound = NothingBound

ValidateIdle ==
    /\ vpc = "idle"
    /\ vcode = CodeEmpty
    /\ validation = [valid |-> FALSE, error |-> Undefined, ran |-> FALSE, raised |-> FALSE]

CallsIdle ==
    /\ fsDirs = {}
    /\ fsFile = [n \in ScratchNames |-> NoFile]
    /\ cpc = [c \in Calls |-> "idle"]
    /\ cdir = [c \in Calls |-> "none"]
    /\ cchild = [c \in Calls |-> NotSpawned]
    /\ cstdout = [c \in Calls |-> <<>>]
    /\ cstderr = [c \in Calls |-> <<>>]
    /\ csettled = [c \in Calls |-> FALSE]
    /\ cresult = [c \in Calls |-> NoResult]

\* The extension activated: the manager has loaded the stored macros (none
\* stored: the defaults), the loader is constructed and has not run yet.
HostIdle ==
    /\ settings = [set |-> FALSE, list |-> <<>>]
    /\ macros = DefaultMacros
    /\ fileMacros = [i \in {} |-> <<>>]
    /\ last = [op |-> "none", id |-> <<>>, macros |-> DefaultMacros,
               settings |-> [set |-> FALSE, list |-> <<>>], returned |-> "void",
               wrote |-> FALSE, fired |-> FALSE, before |-> DefaultMacros]
    /\ message = "none"
    /\ directories = {"macro"}
    /\ disk = {}
    /\ watchers = <<>>
    /\ loads = [r \in 1..NumLoads |->
                    [state |-> "idle", dirs |-> <<>>, files |-> <<>>, initial |-> FALSE]]
    /\ lpc = "new"

Init == ExecInit /\ ExtractIdle /\ ValidateIdle /\ CallsIdle /\ HostIdle

Next ==
    \/ ExecuteCall
    \/ TransformRequires
    \/ TransformSettles
    \/ PyEnsure
    \/ PyWriteFile
    \/ PySpawn
    \/ ChildStdout
    \/ ChildStderr
    \/ ChildError
    \/ ChildClose
    \/ StdinError
    \/ PyFinally

Spec == Init /\ [][Next]_vars

NextExtract ==
    \/ ChooseSource
    \/ ExtractParametersCall
    \/ PromptAndInvoke
    \/ ValidateMacroCodeCall

\* The bridge under the scheduling of the host: a pending file operation
\* completes, a spawned subprocess emits its 'error' or 'close', and a
\* settled promise is awaited. Nothing makes a caller call or a transform
\* settle.
SpecLive ==
    /\ Spec
    /\ WF_vars(PyEnsure)
    /\ WF_vars(PyWriteFile)
    /\ WF_vars(PySpawn)
    /\ WF_vars(ChildError)
    /\ WF_vars(ChildClose)
    /\ WF_vars(PyFinally)

SpecExtract == Init /\ [][NextExtract]_vars

NextConcurrent ==
    \/ \E c \in Calls : CallEnsure(c)
    \/ \E c \in Calls : CallWriteFile(c)
    \/ \E c \in Calls : CallSpawn(c)
    \/ \E c \in Calls : CallChildLoads(c)
    \/ \E c \in Calls : CallChildStdout(c)
    \/ \E c \in Calls : CallChildStderr(c)
    \/ \E c \in Calls : CallChildClose(c)
    \/ \E c \in Calls : CallFinally(c)

SpecConcurrent == Init /\ [][NextConcurrent]_vars

\* The registry under the commands, edits of the settings and the loader.
NextManager ==
    \/ AddMacroCommand
    \/ EditMacroCommand
    \/ DeleteMacroCommand
    \/ ConfigurationChanged
    \/ Initialize
    \/ \E r \in 1..NumLoads : LoadMacroFromFile(r)
    \/ \E d \in {"macro"}, f \in {<<"a", ".js">>} : FileCreated(d, f)
    \/ \E d \in {"macro"}, f \in {<<"a", ".js">>} : FileDeleted(d, f)

SpecManager == Init /\ [][NextManager]_vars

\* The loader under edits of its setting and of the files.
NextLoader ==
    \/ Initialize
    \/ ReloadMacros
    \/ \E r \in 1..NumLoads : LoadMacroFromFile(r)
    \/ \E d \in Dirs \ {"gone"}, i \in 1..Len(FileOrder) : FileCreated(d, FileOrder[i])
    \/ \E d \in Dirs \ {"gone"}, i \in 1..Len(FileOrder) : FileChanged(d, FileOrder[i])
    \/ \E d \in Dirs \ {"gone"}, i \in 1..Len(FileOrder) : FileDeleted(d, FileOrder[i])

SpecLoader == Init /\ [][NextLoader]_vars

\* ------------------------------------------------------------ properties

C2_ResultShape ==
    outcome = "returned" =>
        \/ /\ result.success
           /\ IsString(result.output)
           /\ result.error = Undefined
        \/ /\ ~result.success
           /\ IsString(result.error)
           /\ result.output = Undefined

\* C2 witness: a bridge call returned success with the captured output.
C2_Witness ==
    /\ outcome = "returned"
    /\ runtime = "python"
    /\ result.success
    /\ result.output = Str(<<"o", "\n">>)

\* C3: when the in-process transform returns a string s, directly or
\* through a promise, execute returns success with output exactly s.
C3_StringReturned ==
    (/\ pc = "done"
     /\ transformOutcome.kind \in {"return", "resolve"}
     /\ IsString(transformOutcome.value))
        => /\ outcome = "returned"
           /\ result = Success(transformOutcome.value)

\* C3 witness: a transform resolved to a string through a promise and the
\* call returned it.
C3_Witness ==
    /\ pc = "done"
    /\ compiled
    /\ transformOutcome = [kind |-> "resolve", value |-> Str(<<"out">>)]
    /\ result.success
    /\ result.output = Str(<<"out">>)

\* C4: when the in-process transform returns, or resolves to, a value that
\* is not a string, execute returns failure with the message
\* "Macro must return a string value".
C4_NonStringRejected ==
    (/\ pc = "done"
     /\ transformOutcome.kind \in {"return", "resolve"}
     /\ ~IsString(transformOutcome.value))
        => /\ outcome = "returned"
           /\ result = Failure(<<"Macro must return a string value">>)

\* C4 witness: a transform resolved to undefined and the call failed.
C4_Witness ==
    /\ pc = "done"
    /\ transformOutcome = [kind |-> "resolve", value |-> Undefined]
    /\ ~result.success

\* The runtime execute resolved for the call in progress.
RuntimeResolved == pc # "idle" /\ config.kind # "throws"

\* C5 as stated: an explicit runtime wins; otherwise a path ending in the
\* characters .py gives python; otherwise javascript.
C5_Original ==
    RuntimeResolved =>
        runtime = IF macro.runtime # None
                  THEN macro.runtime
                  ELSE IF HasFilePath(macro) /\ EndsWith(macro.filePath, <<".", "p", "y">>)
                       THEN "python"
                       ELSE "javascript"

\* C5 amended: an explicit runtime wins whatever the path; otherwise a path
\* ending in .py in any letter case gives python; otherwise javascript.
C5_RuntimePrecedence ==
    RuntimeResolved =>
        /\ macro.runtime # None => runtime = macro.runtime
        /\ (/\ macro.runtime = None
            /\ HasFilePath(macro)
            /\ EndsWith(ToLowerCase(macro.filePath), <<".", "p", "y">>))
                => runtime = "python"
        /\ (/\ macro.runtime = None
            /\ ~(/\ HasFilePath(macro)
                 /\ EndsWith(ToLowerCase(macro.filePath), <<".", "p", "y">>)))
                => runtime = "javascript"

\* C5 witness: no explicit runtime and the path /A.PY resolved to python.
C5_Witness ==
    /\ RuntimeResolved
    /\ macro.runtime = None
    /\ macro.filePath = PathPyUpper
    /\ runtime = "python"

\* C6: only a macro whose runtime is javascript is compiled by the
\* in-process evaluator; an interpreter-backed runtime (python, perl) never is.
C6_InProcessOnlyJavascript == compiled => runtime = "javascript"

\* C7: the context handed to the macro carries the shallow merge of the
\* configured globals and the caller's globals, the caller's value winning,
\* its other fields are the caller's, and the caller's object is unchanged.
C7_GlobalsMerge ==
    /\ context = given
    /\ handed.to # "none" =>
        LET eff == handed.context.globals.map
            own == IF given.globals.present THEN given.globals.map ELSE EmptyMap
            cfg == IF config.kind = "object" THEN config.map ELSE EmptyMap
        IN  /\ handed.context.globals.present
            /\ DOMAIN eff = (DOMAIN own) \cup (DOMAIN cfg)
            /\ \A k \in DOMAIN own : eff[k] = own[k]
            /\ \A k \in (DOMAIN cfg) \ (DOMAIN own) : eff[k] = cfg[k]
            /\ handed.context.input = given.input
            /\ handed.context.languageId = given.languageId
            /\ handed.context.filePath = given.filePath
            /\ handed.input = given.input

\* C7 witness: configured {a:1} and caller {a:2, b:3} reached the
\* subprocess as {a:2, b:3}, the caller's context still as passed.
C7_Witness ==
    /\ handed.to = "stdin"
    /\ config = [kind |-> "object", map |-> MapA1]
    /\ given.globals = SomeGlobals(MapA2B3)
    /\ context.globals = SomeGlobals(MapA2B3)
    /\ handed.context.globals = SomeGlobals(MapA2B3)

\* The names a declaration's plain parameters have, input and context left out.
RECURSIVE ExpectedNames(_)
ExpectedNames(l) ==
    IF l = <<>>
    THEN <<>>
    ELSE (IF Head(l).kind = "simple" /\ Head(l).name \notin {NameInput, NameContext}
          THEN <<Head(l).name>>
          ELSE <<>>) \o ExpectedNames(Tail(l))

HasPattern(l) == \E i \in 1..Len(l) : l[i].kind = "pattern"

\* C8: for a source that declares transform, extractParameters returns the
\* names of the plain parameters in order, defaults stripped, without rest
\* parameters and without input and context (stated here for declarations
\* that hold no destructured parameter, which C9 is about).
C8_ExactNames ==
    (xpc = "done" /\ declared.present /\ ~HasPattern(declared.params))
        => extracted = ExpectedNames(declared.params)

\* C9: a destructured parameter gives nothing to the result, and the names
\* of the other parameters are what they are without it.
C9_PatternsOmitted ==
    (xpc = "done" /\ declared.present /\ HasPattern(declared.params))
        => extracted = ExpectedNames(declared.params)

C11_ValidateNeverRuns ==
    vpc = "done" =>
        /\ ~validation.ran
        /\ ~validation.raised
        /\ validation.valid \in BOOLEAN
        /\ validation.valid => validation.error = Undefined
        /\ ~validation.valid => IsString(validation.error)
        /\ child = NoChild

\* C11 witness: a source that defines transform was validated as valid and
\* nothing of it had run.
C11_Witness ==
    /\ vpc = "done"
    /\ vcode = CodeText
    /\ validation.valid
    /\ ~validation.ran

\* C12: validateMacroCode reports syntax and definition errors. A source
\* that does not parse, and a source that parses but defines no transform,
\* are invalid with an error message; a valid source is one execute can
\* compile and find a transform in.
C12_SyntaxAndDefinitionErrors ==
    vpc = "done" =>
        /\ ~Compiles(vcode) => (~validation.valid /\ IsString(validation.error))
        /\ (Compiles(vcode) /\ ~DefinesTransform(vcode))
                => (~validation.valid /\ IsString(validation.error))
        /\ validation.valid => (Compiles(vcode) /\ DefinesTransform(vcode))

\* The texts of a sequence of chunks, one after the other.
RECURSIVE Flatten(_)
Flatten(chunks) ==
    IF chunks = <<>> THEN <<>> ELSE Head(chunks) \o Flatten(Tail(chunks))

\* The call has ended and the removal of its scratch directory had failed.
CleanupFailed == pc = "done" /\ cleanup /\ tempDir = "exists"

\* The payload went to the standard input of the subprocess.
PayloadWritten == stdin.written # <<>>

\* A message holds the fragment f.
Names(msg, f) == \E i \in 1..Len(msg) : msg[i] = f

\* C13: after a bridge execution of an inline macro has returned, the
\* scratch directory made for it no longer exists, whichever step failed
\* (executions whose removal itself failed are left aside).
C13_ScratchRemoved ==
    (/\ pc = "done"
     /\ runtime = "python"
     /\ ~HasFilePath(macro)
     /\ tempDir # "none"
     /\ ~CleanupFailed)
        => tempDir = "removed"

\* C14 as stated: when the subprocess has exited with code 0, execute
\* returns success with everything the subprocess wrote to standard output.
C14_Original ==
    (pc = "done" /\ child.code = "0")
        => result = Success(Str(Flatten(child.wrote)))

\* C14 amended: when the subprocess has exited with code 0, execute returns
\* success with the chunks the subprocess wrote, in order and untrimmed, so
\* that a subprocess writing the payload's input gives back the caller's
\* input; except that a failed removal of the scratch directory, and a
\* payload write that threw, are what execute returns instead.
C14_ExitZeroVerbatim ==
    (pc = "done" /\ child.code = "0") =>
        IF CleanupFailed
        THEN result = Failure(<<"EBUSY: rm">>)
        ELSE IF ~PayloadWritten
        THEN result = Failure(<<"Failed to send input to Python: ", "write EPIPE">>)
        ELSE /\ result = Success(Str(Flatten(child.wrote)))
             /\ child.wrote = <<stdin.written[1].input>>
                    => result.output = Str(given.input)

\* C14 witness: the subprocess wrote back the input "a\n" and exited with
\* code 0, and execute returned it with its newline.
C14_Witness ==
    /\ pc = "done"
    /\ child.code = "0"
    /\ given.input = <<"a", "\n">>
    /\ child.wrote = <<given.input>>
    /\ result = Success(Str(<<"a", "\n">>))

\* C15 as stated: a close with a nonzero code N gives failure with the
\* trimmed standard error or "exited with code N"; a close with no code
\* gives failure with the standard error if there is any, else "terminated
\* unexpectedly"; success is returned in neither case.
C15_Original ==
    (pc = "done" /\ child.errno = "" /\ child.code \notin {"none", "0"}) =>
        /\ ~result.success
        /\ child.code = "null" =>
            result = Failure(IF stderr # <<>> THEN stderr
                             ELSE <<"Python process terminated unexpectedly">>)
        /\ child.code # "null" =>
            result = Failure(IF Trim(stderr) # <<>> THEN Trim(stderr)
                             ELSE <<"Python exited with code ", child.code>>)

\* C15 amended: in both cases the message is the trimmed standard error if
\* that is not empty, else the generic message of the case; success is never
\* returned; a failed removal of the scratch directory, and a payload write
\* that threw, are the failure returned instead.
C15_NonzeroExitFails ==
    (pc = "done" /\ child.errno = "" /\ child.code \notin {"none", "0"}) =>
        /\ ~result.success
        /\ IF CleanupFailed
           THEN result = Failure(<<"EBUSY: rm">>)
           ELSE IF ~PayloadWritten
           THEN result = Failure(<<"Failed to send input to Python: ", "write EPIPE">>)
           ELSE IF Trim(stderr) # <<>>
           THEN result = Failure(Trim(stderr))
           ELSE IF child.code = "null"
           THEN result = Failure(<<"Python process terminated unexpectedly">>)
           ELSE result = Failure(<<"Python exited with code ", child.code>>)

\* C15 witness: the subprocess wrote output and a blank line of standard
\* error and was killed; the call failed with the generic message.
C15_Witness ==
    /\ pc = "done"
    /\ child.code = "null"
    /\ child.wrote # <<>>
    /\ stderr = <<"\n">>
    /\ result = Failure(<<"Python process terminated unexpectedly">>)

\* C16 as stated: when the spawn failed with ENOENT, execute returns a
\* failure naming the setting vcode.macro.python.path and the path tried.
C16_Original ==
    (pc = "done" /\ child.errno = "ENOENT") =>
        /\ ~result.success
        /\ Names(result.error.v, "vcode.macro.python.path")
        /\ Names(result.error.v, PythonPath[1])

\* C16 amended: when the spawn failed with ENOENT, the 'error' event settles
\* the call with a failure naming the setting and the path tried, the close
\* event that follows leaves it as it is, and execute returns it; except
\* that a failed removal of the scratch directory, and a payload write that
\* threw, are the failure returned instead.
C16_InterpreterNotFound ==
    child.errno = "ENOENT" =>
        /\ (child.state \in {"errored", "closed"} /\ PayloadWritten) =>
            /\ promise.state = "resolved"
            /\ ~promise.value.success
            /\ Names(promise.value.error.v, "vcode.macro.python.path")
            /\ Names(promise.value.error.v, PythonPath[1])
        /\ pc = "done" =>
            /\ ~result.success
            /\ IF CleanupFailed
               THEN result = Failure(<<"EBUSY: rm">>)
               ELSE IF ~PayloadWritten
               THEN result = Failure(<<"Failed to send input to Python: ", "write EPIPE">>)
               ELSE result = promise.value

\* C16 witness: the spawn failed with ENOENT, the child has closed after its
\* 'error', and execute returned the message naming the setting.
C16_Witness ==
    /\ pc = "done"
    /\ child.errno = "ENOENT"
    /\ child.state = "closed"
    /\ child.code = "-2"
    /\ Names(result.error.v, "vcode.macro.python.path")

\* The caller's globals or the parameters hold a value JSON cannot carry.
Unserializable ==
    \/ \E k \in DOMAIN given.globals.map : given.globals.map[k] = Cyclic
    \/ \E i \in 1..Len(params) : params[i] = Cyclic

\* C17 as stated: when the context or the parameters cannot be serialized,
\* the bridge returns a failure with a serialization error and spawns nothing.
C17_Original ==
    (runtime = "python" /\ Unserializable) =>
        /\ child = NoChild
        /\ pc = "done" =>
            /\ ~result.success
            /\ Head(result.error.v) = "Failed to serialize context for Python: "

\* C17 amended: when the context or the parameters cannot be serialized, no
\* subprocess is spawned, and a bridge that has its macro file returns a
\* failure with a serialization error, or the failure of the removal of its
\* scratch directory; a bridge that could not get its macro file returns
\* that failure.
C17_SerializationFailsFast ==
    (runtime = "python" /\ Unserializable) =>
        /\ child = NoChild
        /\ stdin = NoStdin
        /\ pc = "done" =>
            /\ ~result.success
            /\ IF promise.state = "pending"
               THEN ~HasFilePath(macro) /\ ~cleanup
               ELSE IF CleanupFailed
               THEN result = Failure(<<"EBUSY: rm">>)
               ELSE Head(result.error.v) = "Failed to serialize context for Python: "

\* C17 witness: a python macro with a cyclic parameter ended in the
\* serialization failure, with no subprocess.
C17_Witness ==
    /\ pc = "done"
    /\ runtime = "python"
    /\ params = <<Cyclic>>
    /\ child = NoChild
    /\ Head(result.error.v) = "Failed to serialize context for Python: "

\* C18: the payload written to standard input is one JSON object: its input
\* is the caller's input text, its context carries the caller's fields and
\* the merged globals, its params are the parameters passed to execute; it
\* is written once and the stream is then ended.
C18_Payload ==
    /\ Len(stdin.written) <= 1
    /\ stdin.ended <=> PayloadWritten
    /\ child.state # "none" /\ handed.to = "stdin" => PayloadWritten
    /\ PayloadWritten =>
        LET payload == stdin.written[1]
            own == IF given.globals.present THEN given.globals.map ELSE EmptyMap
            cfg == IF config.kind = "object" THEN config.map ELSE EmptyMap
        IN  /\ payload.input = given.input
            /\ payload.context.input = given.input
            /\ payload.context.languageId = given.languageId
            /\ payload.context.filePath = given.filePath
            /\ DOMAIN payload.context.globals = (DOMAIN own) \cup (DOMAIN cfg)
            /\ \A k \in DOMAIN own : payload.context.globals[k] = own[k]
            /\ \A k \in (DOMAIN cfg) \ (DOMAIN own) : payload.context.globals[k] = cfg[k]
            /\ payload.params = params

\* C18 witness: a call with two parameters and merged globals wrote its
\* payload, and the subprocess is running.
C18_Witness ==
    /\ child.state = "running"
    /\ PayloadWritten
    /\ stdin.ended
    /\ stdin.written[1].params = <<"p", "q">>
    /\ stdin.written[1].context.globals = MapA1

\* C19: a failed write of the payload, thrown by the write or emitted by
\* the stream afterwards, is returned by execute as a failure, and no error
\* is left unhandled in the host.
C19_WriteFailureReported ==
    /\ unhandled = {}
    /\ (/\ pc = "done"
        /\ child.state # "none"
        /\ (~PayloadWritten \/ stdin.errored))
            => ~result.success

\* A call that has made its scratch directory and not yet removed it.
InFlight(c) == cpc[c] \in {"made", "written", "waiting"}

\* What the call's macro writes for the call's input, n times.
RECURSIVE OwnOutput(_, _)
OwnOutput(c, n) == IF n = 0 THEN <<>> ELSE <<c, c>> \o OwnOutput(c, n - 1)

\* C20: concurrent bridge executions are independent. Calls in flight have
\* scratch directories of different names; a call's directory and macro
\* file stay on disk as the call wrote them until its own cleanup; its
\* subprocess loads its own macro file; its stdout and stderr hold only what
\* its own subprocess wrote; and its result is that of its own subprocess.
C20_CallsIndependent ==
    /\ \A c, d \in Calls : (c # d /\ InFlight(c) /\ InFlight(d)) => cdir[c] # cdir[d]
    /\ \A c \in Calls :
        /\ InFlight(c) => cdir[c] \in fsDirs
        /\ cpc[c] \in {"written", "waiting"} => fsFile[cdir[c]] = c
        /\ cchild[c].state \in {"loaded", "closed"} => cchild[c].script = c
        /\ \E n \in 0..MaxChunks : cstdout[c] = OwnOutput(c, n)
        /\ cstderr[c] \in {<<>>, <<c, "\n">>}
        /\ csettled[c] <=> cchild[c].state = "closed"
        /\ csettled[c] =>
            cresult[c] = IF cchild[c].code = "0"
                         THEN Success(Str(cstdout[c]))
                         ELSE Failure(IF cstderr[c] # <<>> THEN <<c>>
                                      ELSE <<"Python exited with code ", "1">>)

\* C20 witness: one call has returned its own output and removed its scratch
\* directory while another, started before that removal, has its subprocess
\* spawned and not yet reading its macro file, which is still on disk.
C20_Witness ==
    /\ cpc[CallIds[1]] = "done"
    /\ cresult[CallIds[1]] = Success(Str(<<CallIds[1], CallIds[1]>>))
    /\ cdir[CallIds[1]] \notin fsDirs
    /\ cchild[CallIds[2]].state = "spawned"
    /\ cdir[CallIds[2]] # cdir[CallIds[1]]
    /\ fsFile[cdir[CallIds[2]]] = CallIds[2]

\* C21: extra parameters are aligned end to end. When transform has been
\* invoked with the prompted values, the k-th name extractParameters
\* returned is a parameter of the declaration and is bound to the value
\* entered at the k-th prompt.
C21_ParametersAligned ==
    (xpc = "invoked" /\ declared.present) =>
        \A k \in 1..Len(extracted) :
            /\ extracted[k] \in DOMAIN bound
            /\ bound[extracted[k]] = entered[k]

\* C22: a python macro with no backing file and no inline source but
\* whitespace is rejected with a failure, no scratch directory, no file and
\* no subprocess; a python macro with a backing file runs that file and makes
\* no scratch directory, whatever its inline source.
C22_BlankInlineRejected ==
    runtime = "python" =>
        /\ (~HasFilePath(macro) /\ Trim(macro.code) = <<>>) =>
            /\ tempDir = "none"
            /\ ~cleanup
            /\ child = NoChild
            /\ stdin = NoStdin
            /\ pc = "done" => (outcome = "returned" /\ ~result.success)
        /\ HasFilePath(macro) =>
            /\ tempDir = "none"
            /\ ~cleanup
            /\ pc \notin {"py_write", "done"} \/ promise.state # "pending"

\* C22 witness: an inline python macro of blank code was refused, and
\* nothing was made for it.
C22_Witness ==
    /\ pc = "done"
    /\ runtime = "python"
    /\ ~macro.hasPath
    /\ macro.code = CodeBlank
    /\ result = Failure(<<"Python macro requires a file path or inline code">>)
    /\ tempDir = "none"
    /\ child = NoChild

\* C23: each bridge execution resolves exactly once, with the outcome of
\* the first of the 'error' event, the 'close' event and a failure to write
\* the payload (executions whose scratch directory could not be removed are
\* left aside).
C23_FirstEventWins ==
    (pc = "done" /\ child.state # "none" /\ ~CleanupFailed) =>
        IF ~PayloadWritten \/ stdin.first
        THEN /\ ~result.success
             /\ Head(result.error.v) = "Failed to send input to Python: "
        ELSE IF child.errno # ""
        THEN result = Failure(FormatPythonSpawnError(PythonPath, child.errno))
        ELSE result = CloseResult(child.code, stdout, stderr)

\* C24: for a macro with a file path and a workspace root, require(id)
\* gives the file-scoped module if that lookup succeeds; after a not-found
\* of the file-scoped lookup, the workspace-scoped module if that lookup
\* succeeds, else the file-scoped not-found error; after any other error of
\* the file-scoped lookup, that error, the workspace not having been tried.
C24_RequireFallback ==
    required.scope = "both" =>
        /\ required.local = "found" =>
            (required.kind = "return" /\ required.from = "file" /\ ~required.tried)
        /\ (required.local = "MODULE_NOT_FOUND" /\ required.workspace = "found") =>
            (required.kind = "return" /\ required.from = "workspace")
        /\ (required.local = "MODULE_NOT_FOUND" /\ required.workspace # "found") =>
            /\ required.kind = "throw"
            /\ required.from = "file"
            /\ required.error = "MODULE_NOT_FOUND"
        /\ required.local \notin {"found", "MODULE_NOT_FOUND"} =>
            /\ required.kind = "throw"
            /\ required.error = required.local
            /\ ~required.tried

\* C24 witness: the file-scoped lookup failed with another error while the
\* workspace holds the module, and that error was raised.
C24_Witness ==
    /\ required.scope = "both"
    /\ required.local = "ERR_REQUIRE_ESM"
    /\ required.workspace = "found"
    /\ required.kind = "throw"
    /\ ~required.tried

\* C25: under the fairness of SpecLive every bridge call returns, and the
\* scratch directory made for an inline macro is removed in the end (or its
\* removal was tried and failed).
C25_BridgeTerminates ==
    /\ (pc \in {"py_ensure", "py_write", "py_spawn", "py_wait"}) ~> (pc = "done")
    /\ (tempDir = "exists") ~> (tempDir = "removed" \/ CleanupFailed)

\* C26: the scratch directory is removed only once the subprocess launched
\* on it has closed or has failed to spawn.
C26_RemovedAfterClose ==
    tempDir = "removed" => child.state # "running"


\* C27: the edit and the delete command report success only when the
\* registry changed: when updateMacro or deleteMacro returned true.
C27_SuccessOnlyWhenChanged ==
    (/\ last.op \in {"updateMacro", "deleteMacro"}
     /\ message \in {"updated successfully", "deleted successfully"})
        => last.returned = "true"

\* No load is running and the listener for the setting is registered.
Quiet ==
    /\ lpc = "listening"
    /\ \A r \in 1..NumLoads : loads[r].state = "idle"

\* C28: once the loader is at rest, the registered file macros are exactly
\* the macro files (.js, .py, .pl) of the directories now configured.
C28_FileMacrosMatchFiles ==
    Quiet =>
        {fileMacros[i] : i \in DOMAIN fileMacros}
            = {p \in disk : p[1] \in directories /\ IsMacroFile(p[2])}

\* C29: no directory and pattern is watched by two watchers of the list at
\* once.
C29_OneWatcherPerPattern ==
    \A i, j \in 1..Len(watchers) : i # j => watchers[i] # watchers[j]

\* C30: a mutation whose save failed leaves the in-memory list as it was
\* before the call; updateMacro and deleteMacro of a file macro's id or of
\* an unknown id return false, change nothing, write nothing and fire no
\* event.
C30_AllOrNothing ==
    /\ (/\ last.op \in {"addMacro", "updateMacro", "deleteMacro"}
        /\ last.returned = "threw")
            => last.macros = last.before
    /\ (/\ last.op \in {"updateMacro", "deleteMacro"}
        /\ \/ last.id \in DOMAIN fileMacros
           \/ \A i \in 1..Len(last.before) : last.before[i].id # last.id)
            => /\ last.returned = "false"
               /\ last.macros = last.before
               /\ ~last.wrote
               /\ ~last.fired

====
